---- MODULE Spec2Model ----
(***************************************************************************)
(* The incident-type REST controller of dispatch                           *)
(* (src/src/dispatch/incident_type/views.py) as a state machine.           *)
(*                                                                         *)
(* The four route handlers are operators over the database state; they     *)
(* return the HTTP response together with the database state they leave.   *)
(* The service layer (get/create/update), the pagination helper and the    *)
(* role enumeration live outside views.py and are modelled from their      *)
(* documented interface.  Payloads are the ones the schema types have      *)
(* accepted: a handler body only runs on a validated payload.              *)
(*                                                                         *)
(* Spec     : every request is one atomic step (one request at a time).    *)
(* HistSpec : Spec on a smaller table, remembering the ids get has found.  *)
(* ListSpec : Spec, remembering an earlier list call.                      *)
(* ConcSpec : requests of several workers interleave at the database       *)
(*            calls; update is a lookup step followed by a write step.     *)
(***************************************************************************)
EXTENDS Integers, Sequences, FiniteSets, TLC

VARIABLES
    store,          \* the IncidentType table: id -> entity
    nextId,         \* the table's next primary key
    last,           \* Spec: the last request and its response
    before,         \* Spec: the table as it was when the last request arrived
    found,          \* HistSpec: ids for which get_incident_type has answered 200
    listed,         \* ListSpec: an earlier list call (caller, parameters, envelope)
                    \* with no create or update request served since, or {}
    pc,             \* ConcSpec: where each worker is in its handler
    req,            \* ConcSpec: the request each worker is serving
    incident_type,  \* ConcSpec: update_incident_type's local variable
    responses       \* ConcSpec: statuses sent for the worker's current request

vars == <<store, nextId, last, before, found, listed, pc, req, incident_type, responses>>

seqVars == <<last, before, found, listed>>
concVars == <<pc, req, incident_type, responses>>

----------------------------------------------------------------------------
(* Bounds of the model *)

\* Spec stops creating once this many ids have been assigned.
MaxId == 6
\* HistSpec stops creating once this many ids have been assigned.
MaxHistId == 3
\* ConcSpec stops creating once this many ids have been assigned.
MaxConcId == 2

----------------------------------------------------------------------------
(* Inputs *)

admin == "admin"
UserRoles == {"user", admin}
Names == {"a", "b"}
Payloads == [name : Names]
\* ids a request may name are 0..(cap + 1): 0 is never assigned and cap + 1
\* is beyond every id the run assigns
\* an optional query parameter: {} when absent, {v} when given
PageParams == {{}, {1}, {2}}
SizeParams == {{}, {2}}
Procs == {1, 2}

DefaultPage == 1
DefaultItemsPerPage == 5

----------------------------------------------------------------------------
(* Service layer and pagination helper *)

\* get(db_session, incident_type_id) -> Entity | None, as {entity} or {}
get(db, incident_type_id) ==
    IF incident_type_id \in DOMAIN db THEN {db[incident_type_id]} ELSE {}

\* create(db_session, incident_type_in) -> Entity: a new row under a fresh key
create(db, nid, incident_type_in) ==
    LET e == [id |-> nid, name |-> incident_type_in.name]
    IN  [entity |-> e, db |-> db @@ (nid :> e), nextId |-> nid + 1]

\* update(db_session, incident_type, incident_type_in) -> Entity: the payload's
\* fields are set on the entity and the entity's row is written
update(db, ent, incident_type_in) ==
    LET e == [ent EXCEPT !.name = incident_type_in.name]
    IN  [entity |-> e, db |-> [db EXCEPT ![e.id] = e]]

Min(a, b) == IF a <= b THEN a ELSE b

RECURSIVE Ascending(_)
Ascending(S) ==
    IF S = {} THEN << >>
    ELSE LET m == CHOOSE x \in S : \A y \in S : x <= y
         IN  <<m>> \o Ascending(S \ {m})

\* search_filter_sort_paginate with no query, filter or sort: the rows in id
\* order, sliced to the page, in the pagination envelope
search_filter_sort_paginate(db, page, items_per_page) ==
    LET ids   == Ascending(DOMAIN db)
        rows  == [i \in 1..Len(ids) |-> db[ids[i]]]
        first == (page - 1) * items_per_page + 1
        end   == Min(page * items_per_page, Len(rows))
    IN  [items        |-> IF first <= end THEN SubSeq(rows, first, end) ELSE << >>,
         page         |-> page,
         itemsPerPage |-> items_per_page,
         total        |-> Len(rows)]

----------------------------------------------------------------------------
(* Route handlers: response and resulting database state *)

Default(param, d) == IF param = {} THEN d ELSE CHOOSE v \in param : TRUE

HTTPException(status_code, db, nid) ==
    [status |-> status_code, body |-> {}, db |-> db, nextId |-> nid]

Ok(body, db, nid) ==
    [status |-> 200, body |-> {body}, db |-> db, nextId |-> nid]

\* Fault: the admin gate of the writing routes copied onto the list route.
get_incident_types_admin_only(db, nid, page, items_per_page, current_user) ==
    IF current_user # admin
    THEN HTTPException(403, db, nid)
    ELSE Ok(search_filter_sort_paginate(db, Default(page, DefaultPage),
                Default(items_per_page, DefaultItemsPerPage)), db, nid)

\* GET /
get_incident_types(db, nid, page, items_per_page, current_user) ==
    Ok(search_filter_sort_paginate(db, Default(page, DefaultPage),
           Default(items_per_page, DefaultItemsPerPage)), db, nid)

\* Fault: the role check of create is missing.
create_incident_type_no_check(db, nid, incident_type_in, current_user) ==
    LET r == create(db, nid, incident_type_in)
    IN  Ok(r.entity, r.db, r.nextId)

\* Fault: the created entity is returned but its row is not kept.
create_incident_type_not_persisted(db, nid, incident_type_in, current_user) ==
    IF current_user # admin
    THEN HTTPException(403, db, nid)
    ELSE Ok(create(db, nid, incident_type_in).entity, db, nid)

\* POST /
create_incident_type(db, nid, incident_type_in, current_user) ==
    IF current_user # admin
    THEN HTTPException(403, db, nid)
    ELSE LET r == create(db, nid, incident_type_in)
         IN  Ok(r.entity, r.db, r.nextId)

\* Fault: the role check placed before the existence check.
update_incident_type_permission_first(db, nid, incident_type_id, incident_type_in, current_user) ==
    LET it == get(db, incident_type_id)
    IN  IF current_user # admin
        THEN HTTPException(403, db, nid)
        ELSE IF it = {}
        THEN HTTPException(404, db, nid)
        ELSE LET r == update(db, CHOOSE e \in it : TRUE, incident_type_in)
             IN  Ok(r.entity, r.db, nid)

\* Fault: update called before the role check.
update_incident_type_write_on_403(db, nid, incident_type_id, incident_type_in, current_user) ==
    LET it == get(db, incident_type_id)
    IN  IF it = {}
        THEN HTTPException(404, db, nid)
        ELSE LET r == update(db, CHOOSE e \in it : TRUE, incident_type_in)
             IN  IF current_user # admin
                 THEN HTTPException(403, r.db, nid)
                 ELSE Ok(r.entity, r.db, nid)

\* Fault: the looked-up entity is returned instead of update's result.
update_incident_type_returns_stale(db, nid, incident_type_id, incident_type_in, current_user) ==
    LET it == get(db, incident_type_id)
    IN  IF it = {}
        THEN HTTPException(404, db, nid)
        ELSE IF current_user # admin
        THEN HTTPException(403, db, nid)
        ELSE LET r == update(db, CHOOSE e \in it : TRUE, incident_type_in)
             IN  Ok(CHOOSE e \in it : TRUE, r.db, nid)

\* Fault: the existence check is missing.
update_incident_type_check_no_404(db, incident_type_id, current_user) ==
    LET it == get(db, incident_type_id)
    IN  IF current_user # admin
        THEN [raise |-> 403, incident_type |-> it]
        ELSE [raise |-> 0, incident_type |-> it]

\* PUT /{incident_type_id}, up to the call of update: the lookup and the two
\* checks.  raise is the status of the HTTPException raised, 0 when none is.
update_incident_type_check(db, incident_type_id, current_user) ==
    LET it == get(db, incident_type_id)
    IN  IF it = {}
        THEN [raise |-> 404, incident_type |-> it]
        ELSE IF current_user # admin
        THEN [raise |-> 403, incident_type |-> it]
        ELSE [raise |-> 0, incident_type |-> it]

\* PUT /{incident_type_id}, the call of update and the return
update_incident_type_write(db, nid, it, incident_type_in) ==
    LET r == update(db, CHOOSE e \in it : TRUE, incident_type_in)
    IN  Ok(r.entity, r.db, nid)

\* PUT /{incident_type_id}
update_incident_type(db, nid, incident_type_id, incident_type_in, current_user) ==
    LET c == update_incident_type_check(db, incident_type_id, current_user)
    IN  IF c.raise # 0
        THEN HTTPException(c.raise, db, nid)
        ELSE update_incident_type_write(db, nid, c.incident_type, incident_type_in)

\* Fault: the existence test inverted.
get_incident_type_inverted(db, nid, incident_type_id) ==
    LET it == get(db, incident_type_id)
    IN  IF it # {}
        THEN HTTPException(404, db, nid)
        ELSE Ok([id |-> incident_type_id, name |-> ""], db, nid)

\* GET /{incident_type_id}
get_incident_type(db, nid, incident_type_id) ==
    LET it == get(db, incident_type_id)
    IN  IF it = {}
        THEN HTTPException(404, db, nid)
        ELSE Ok(CHOOSE e \in it : TRUE, db, nid)

----------------------------------------------------------------------------
(* Spec: one request at a time *)

Init ==
    /\ store = << >>
    /\ nextId = 1
    /\ last = [req |-> [op |-> "none"], status |-> 0, body |-> {}]
    /\ before = << >>
    /\ found = {}
    /\ listed = {}
    /\ pc = [p \in Procs |-> "idle"]
    /\ req = [p \in Procs |-> [op |-> "none"]]
    /\ incident_type = [p \in Procs |-> {}]
    /\ responses = [p \in Procs |-> << >>]

\* The request is served: the response goes out and the handler's database
\* state becomes the table.  cap bounds the ids assigned; track names the
\* history variable that is kept ("found", "listed" or neither).
Serve(request, r, cap, track) ==
    /\ r.nextId <= cap + 1
    /\ before' = store
    /\ store' = r.db
    /\ nextId' = r.nextId
    /\ last' = [req |-> request, status |-> r.status, body |-> r.body]
    /\ found' = IF track = "found" /\ request.op = "get" /\ r.status = 200
                THEN found \cup {request.id} ELSE found
    /\ IF track # "listed" \/ request.op = "get"
       THEN listed' = listed
       ELSE IF request.op \in {"create", "update"}
       THEN listed' = {}
       ELSE \* a list call: it is remembered, or the remembered one is kept
            listed' \in {listed, {[role |-> request.role, page |-> request.page,
                                   size |-> request.size, body |-> r.body]}}
    /\ UNCHANGED concVars

ListRequest(cap, track) ==
    \E user \in UserRoles, page \in PageParams, size \in SizeParams :
        Serve([op |-> "list", role |-> user, page |-> page, size |-> size],
              get_incident_types(store, nextId, page, size, user), cap, track)

CreateRequest(cap, track) ==
    \E user \in UserRoles, in \in Payloads :
        Serve([op |-> "create", role |-> user, in |-> in],
              create_incident_type(store, nextId, in, user), cap, track)

UpdateRequest(cap, track) ==
    \E user \in UserRoles, id \in 0..(cap + 1), in \in Payloads :
        Serve([op |-> "update", role |-> user, id |-> id, in |-> in],
              update_incident_type(store, nextId, id, in, user), cap, track)

GetRequest(cap, track) ==
    \E user \in UserRoles, id \in 0..(cap + 1) :
        Serve([op |-> "get", role |-> user, id |-> id],
              get_incident_type(store, nextId, id), cap, track)

Next ==
    \/ ListRequest(MaxId, "none")
    \/ CreateRequest(MaxId, "none")
    \/ UpdateRequest(MaxId, "none")
    \/ GetRequest(MaxId, "none")

Spec == Init /\ [][Next]_vars

\* A delete route, which the router does not have.
DeleteRequest(cap, track) ==
    \E user \in UserRoles, id \in DOMAIN store :
        Serve([op |-> "delete", role |-> user, id |-> id],
              Ok(store[id], [i \in DOMAIN store \ {id} |-> store[i]], nextId),
              cap, track)

\* Fault: the router also exposes the delete route.
HistNext_with_delete ==
    \/ ListRequest(MaxHistId, "found")
    \/ CreateRequest(MaxHistId, "found")
    \/ UpdateRequest(MaxHistId, "found")
    \/ GetRequest(MaxHistId, "found")
    \/ DeleteRequest(MaxHistId, "found")

\* HistSpec: the routes over a smaller table, keeping found.
HistNext ==
    \/ ListRequest(MaxHistId, "found")
    \/ CreateRequest(MaxHistId, "found")
    \/ UpdateRequest(MaxHistId, "found")
    \/ GetRequest(MaxHistId, "found")

HistSpec == Init /\ [][HistNext]_vars

\* ListSpec: the routes, keeping listed.
ListNext ==
    \/ ListRequest(MaxId, "listed")
    \/ CreateRequest(MaxId, "listed")
    \/ UpdateRequest(MaxId, "listed")
    \/ GetRequest(MaxId, "listed")

ListSpec == Init /\ [][ListNext]_vars

----------------------------------------------------------------------------
(* ConcSpec: workers serve requests concurrently, one database call a step *)

Respond(p, r) ==
    /\ r.nextId <= MaxConcId + 1
    /\ store' = r.db
    /\ nextId' = r.nextId
    /\ responses' = [responses EXCEPT ![p] = Append(@, r.status)]
    /\ pc' = [pc EXCEPT ![p] = "done"]

\* A request arrives at a free worker.
Accept(p, request) ==
    /\ pc[p] \in {"idle", "done"}
    /\ req' = [req EXCEPT ![p] = request]
    /\ pc' = [pc EXCEPT ![p] = IF request.op = "update" THEN "update" ELSE request.op]
    /\ responses' = [responses EXCEPT ![p] = << >>]
    /\ incident_type' = [incident_type EXCEPT ![p] = {}]
    /\ UNCHANGED <<store, nextId, seqVars>>

Begin(p) ==
    \/ \E user \in UserRoles : Accept(p, [op |-> "list", role |-> user])
    \/ \E user \in UserRoles, in \in Payloads :
         Accept(p, [op |-> "create", role |-> user, in |-> in])
    \/ \E user \in UserRoles, id \in 0..(MaxConcId + 1), in \in Payloads :
         Accept(p, [op |-> "update", role |-> user, id |-> id, in |-> in])
    \/ \E user \in UserRoles, id \in 0..(MaxConcId + 1) :
         Accept(p, [op |-> "get", role |-> user, id |-> id])

ListStep(p) ==
    /\ pc[p] = "list"
    /\ Respond(p, get_incident_types(store, nextId, {}, {}, req[p].role))
    /\ UNCHANGED <<req, incident_type, seqVars>>

CreateStep(p) ==
    /\ pc[p] = "create"
    /\ Respond(p, create_incident_type(store, nextId, req[p].in, req[p].role))
    /\ UNCHANGED <<req, incident_type, seqVars>>

GetStep(p) ==
    /\ pc[p] = "get"
    /\ Respond(p, get_incident_type(store, nextId, req[p].id))
    /\ UNCHANGED <<req, incident_type, seqVars>>

\* update_incident_type up to the call of update
UpdateLookup(p) ==
    /\ pc[p] = "update"
    /\ LET c == update_incident_type_check(store, req[p].id, req[p].role)
       IN  /\ incident_type' = [incident_type EXCEPT ![p] = c.incident_type]
           /\ IF c.raise # 0
              THEN Respond(p, HTTPException(c.raise, store, nextId))
              ELSE /\ pc' = [pc EXCEPT ![p] = "update_write"]
                   /\ UNCHANGED <<store, nextId, responses>>
    /\ UNCHANGED <<req, seqVars>>

\* update_incident_type from the call of update, on the table as it is now
UpdateWrite(p) ==
    /\ pc[p] = "update_write"
    /\ Respond(p, update_incident_type_write(store, nextId, incident_type[p], req[p].in))
    /\ UNCHANGED <<req, incident_type, seqVars>>

ConcNext ==
    \E p \in Procs :
        \/ Begin(p)
        \/ ListStep(p)
        \/ CreateStep(p)
        \/ GetStep(p)
        \/ UpdateLookup(p)
        \/ UpdateWrite(p)

ConcSpec == Init /\ [][ConcNext]_vars

----------------------------------------------------------------------------
(* Properties.  In Spec, HistSpec and ListSpec every reachable state but   *)
(* the initial one is the state right after a request: last is the request *)
(* and its response, before the table the request found, store the table   *)
(* it left.                                                                *)

Op == last.req.op
Caller == last.req.role
Existed == last.req.id \in DOMAIN before
Unchanged(i) == i \in DOMAIN store /\ store[i] = before[i]

\* C1: every change to the IncidentType table (a new or a modified entity) is
\* made by a create or update request whose caller has role admin; no request
\* of a non-admin caller adds or modifies an entity.
C1_AdminOnlyWrites ==
    store # before =>
        /\ Op \in {"create", "update"}
        /\ Caller = admin
        /\ last.status = 200

C1_Witness ==
    /\ Op = "update"
    /\ Caller = admin
    /\ store # before

\* C2 as stated: for every non-admin caller create and update answer 403,
\* for every id and payload.
C2_Original ==
    (Op \in {"create", "update"} /\ Caller # admin) => last.status = 403

\* C2 amended: for every non-admin caller create answers 403 for every payload
\* and update answers 403 for every id present in the table and every payload;
\* update of an id that is not in the table answers 404.
C2_NonAdminForbidden ==
    (Op \in {"create", "update"} /\ Caller # admin) =>
        /\ Op = "create" => last.status = 403
        /\ (Op = "update" /\ Existed) => last.status = 403
        /\ (Op = "update" /\ ~Existed) => last.status = 404

C2_Witness ==
    /\ Op = "update"
    /\ Caller # admin
    /\ Existed
    /\ before[last.req.id].name # last.req.in.name
    /\ last.status = 403

\* C3: for every id that is not in the table get and update answer 404
\* whatever the caller's role; a non-admin update of a missing id is answered
\* 404, not 403 (the existence check comes first).
C3_MissingIs404 ==
    (Op \in {"get", "update"} /\ ~Existed) => last.status = 404

C3_Witness ==
    /\ Op = "update"
    /\ Caller # admin
    /\ ~Existed
    /\ before # << >>
    /\ last.status = 404

\* C4: update of an id in the table by an admin answers 200; the returned
\* entity carries the payload's fields, the stored entity of that id is the
\* returned one, and every other stored entity is unchanged.
C4_AdminUpdate ==
    (Op = "update" /\ Caller = admin /\ Existed) =>
        /\ last.status = 200
        /\ \E e \in last.body :
             /\ last.body = {e}
             /\ e.id = last.req.id
             /\ e.name = last.req.in.name
             /\ store[last.req.id] = e
        /\ DOMAIN store = DOMAIN before
        /\ \A i \in DOMAIN before \ {last.req.id} : Unchanged(i)

C4_Witness ==
    /\ Op = "update"
    /\ Caller = admin
    /\ Existed
    /\ before[last.req.id].name # last.req.in.name
    /\ Cardinality(DOMAIN before) >= 2
    /\ last.status = 200

\* C5: create by an admin answers 200 with an entity that has the payload's
\* name and an id no entity of the table had before; exactly one entity is
\* added and the existing entities are unchanged.
C5_AdminCreate ==
    (Op = "create" /\ Caller = admin) =>
        /\ last.status = 200
        /\ \E e \in last.body :
             /\ last.body = {e}
             /\ e.name = last.req.in.name
             /\ e.id \notin DOMAIN before
             /\ DOMAIN store = DOMAIN before \cup {e.id}
             /\ store[e.id] = e
        /\ \A i \in DOMAIN before : Unchanged(i)

C5_Witness ==
    /\ Op = "create"
    /\ Caller = admin
    /\ last.status = 200
    /\ Cardinality(DOMAIN before) >= 2
    /\ Cardinality(DOMAIN store) = Cardinality(DOMAIN before) + 1

\* C6: a request answered with an error (403 or 404) and every list and get
\* request leave the table exactly as it was: a rejected create persists
\* nothing, a rejected update modifies nothing.
C6_ErrorsAndReadsKeepStore ==
    (last.status \in {403, 404} \/ Op \in {"list", "get"}) =>
        store = before

C6_Witness ==
    /\ Op = "update"
    /\ last.status = 403
    /\ Existed
    /\ before[last.req.id].name # last.req.in.name
    /\ store = before

\* C7 (state part): get has no authorization gate: for an id in the table it
\* answers 200 with the stored entity whatever the caller's role, and for an
\* id never assigned it answers 404.
C7_GetState ==
    Op = "get" =>
        /\ Existed => (last.status = 200 /\ last.body = {store[last.req.id]})
        /\ ~Existed => (last.status = 404 /\ last.body = {})

\* C7 (step part): a get of the id a successful create has just returned
\* answers 200 with the entity the create returned.
C7_GetAfterCreate ==
    (/\ Op = "create"
     /\ last.status = 200
     /\ last'.req.op = "get"
     /\ \E e \in last.body : last'.req.id = e.id)
    => (last'.status = 200 /\ last'.body = last.body)

\* C7: get(id) answers 200 with the stored entity for every id in the table
\* and a caller of any role; a get right after a successful create of that id
\* returns what the create returned; get of a never assigned id answers 404.
C7_GetUngated == [](C7_GetState) /\ [][C7_GetAfterCreate]_vars

C7_Witness ==
    /\ Op = "get"
    /\ Caller # admin
    /\ last.req.id = nextId - 1
    /\ last.status = 200
    /\ last.body = {store[last.req.id]}

SameCall(l) == l.page = last.req.page /\ l.size = last.req.size

\* C8: list with no parameters uses page 1 and page size 5 and returns at
\* most 5 items; list needs no authorization; two list calls with the same
\* parameters and no create or update between them return the same envelope.
C8_List ==
    Op = "list" =>
        /\ last.status = 200
        /\ store = before
        /\ \E env \in last.body :
             /\ last.body = {env}
             /\ last.req.page = {} => env.page = 1
             /\ last.req.size = {} =>
                    (env.itemsPerPage = 5 /\ Len(env.items) <= 5)
             /\ env.total = Cardinality(DOMAIN store)
        /\ \A l \in listed : SameCall(l) => l.body = last.body

C8_Witness ==
    /\ Op = "list"
    /\ last.req.page = {}
    /\ last.req.size = {}
    /\ \E env \in last.body : Len(env.items) = 5 /\ env.total = 6
    /\ \E l \in listed : SameCall(l) /\ l.role = admin /\ Caller # admin

\* C9: no delete is exposed, so the set of ids in the table never shrinks;
\* once get(id) has answered 200, every later get(id) answers 200 and every
\* later update(id, input) by an admin answers 200, never 404.
C9_IdsNeverLost ==
    /\ DOMAIN before \subseteq DOMAIN store
    /\ found \subseteq DOMAIN store
    /\ (Op = "get" /\ last.req.id \in found) => last.status = 200
    /\ (Op = "update" /\ Caller = admin /\ last.req.id \in found) => last.status = 200

C9_Witness ==
    /\ Op = "update"
    /\ Caller = admin
    /\ last.req.id \in found
    /\ Cardinality(found) >= 2
    /\ last.status = 200

Busy(p) == pc[p] \notin {"idle", "done"}

\* C10 (state part): a request being served has sent no response, a served
\* request has sent exactly one, 200, 403 or 404; a worker about to write
\* holds an entity whose id is in the table.
C10_State ==
    \A p \in Procs :
        /\ Busy(p) => responses[p] = << >>
        /\ pc[p] = "done" =>
               (Len(responses[p]) = 1 /\ responses[p][1] \in {200, 403, 404})
        /\ pc[p] = "update_write" =>
               \E e \in incident_type[p] : e.id = req[p].id /\ e.id \in DOMAIN store

\* C10 (step part): a step that changes the table is the create or the write
\* step of a request whose caller is admin, answered 200, and it changes no
\* other row than the request's.
C10_Writes ==
    store' # store =>
        \E p \in Procs :
            /\ req[p].op \in {"create", "update"}
            /\ req[p].role = admin
            /\ Busy(p)
            /\ pc'[p] = "done"
            /\ responses'[p] = <<200>>
            /\ DOMAIN store \subseteq DOMAIN store'
            /\ req[p].op = "update" =>
                   (/\ DOMAIN store' = DOMAIN store
                    /\ \A i \in DOMAIN store \ {req[p].id} : store'[i] = store[i])

\* C10: with requests interleaved between the lookup and the write of update
\* and no locking, every request ends with exactly one response (200, 403 or
\* 404), update never writes to an id that is not in the table, and only
\* requests of admin callers change the table.
C10_Concurrent == [](C10_State) /\ [][C10_Writes]_vars

C10_Witness ==
    /\ pc[1] = "update_write"
    /\ pc[2] = "done"
    /\ req[2].op = "update"
    /\ req[2].id = req[1].id
    /\ responses[2] = <<200>>
    /\ \E e \in incident_type[1] : store[e.id] # e

====
